---- MODULE Spec2Model ----
(***************************************************************************)
(* Model of send_earworm.py: the control loop run_schedule, the job        *)
(* registration built by schedule_job / restart_job on top of the          *)
(* `schedule` job queue, and the pipeline of one run (send_earworm).       *)
(*                                                                         *)
(* Time is kept relative: a job's next_run is the number of seconds until  *)
(* it is due (<= 0 means due), and every passage of time goes through      *)
(* Elapse.  The wall clock read by is_available is an input of the run.    *)
(***************************************************************************)
EXTENDS Integers, Sequences, FiniteSets, TLC

VARIABLES
    lower_bound,      \* run_schedule parameter, minutes
    upper_bound,      \* run_schedule parameter, minutes
    jobs,             \* schedule.jobs: the registrations of the default scheduler
    clients_built,    \* generation of the handles get_clients built last (mod IdMod)
    pc,               \* position of the single thread of control
    pending,          \* run_pending: runnable jobs not yet run in this call
    cur,              \* index in jobs of the job whose job_func is running, 0 if none
    in_flight,        \* number of send_earworm invocations entered and not left
    edt,              \* send_earworm: Eastern time of day read by is_available
    availability,     \* send_earworm: result of is_available
    song,             \* send_earworm: (song_artist, song_title, earworm_lyrics)
    original_url,     \* send_earworm: original_url
    short_url,        \* send_earworm: short_url
    earworm_message,  \* send_earworm: earworm_message
    sent,             \* body received by client.messages.create in this run
    sms,              \* send_sms: the message instance fetched after the delay
    exc,              \* exception propagating out of the run, with the step raising it
    calls,            \* collaborator calls made by the current run, in order
    outcome,          \* how the latest run left send_earworm
    prev_outcome,     \* how the run before the latest one left send_earworm
    failed_id,        \* id of the registration whose run raised last
    logged,           \* record logging.exception wrote since the latest run started
    since_start,      \* seconds since the latest run started, counted up to StartCap
    connection        \* get_earworm: the sqlite3 connection opened last

vars == <<lower_bound, upper_bound, jobs, clients_built, pc, pending, cur,
          in_flight, edt, availability, song, original_url, short_url,
          earworm_message, sent, sms, exc, calls, outcome, prev_outcome,
          failed_id,
          logged,
          since_start,
          connection>>

run_vars == <<edt, availability, song, original_url, short_url,
              earworm_message, sent, sms>>

-----------------------------------------------------------------------------
(* Bounds of the model *)

MaxBound == 2
MaxCallSecs == 1
NumSongs == 2
IdMod == 3

(* Program constants *)

MinuteSecs == 60
PollSecs == 59
SettleSecs == 2
HourSecs == 60 * MinuteSecs
DaySecs == 24 * HourSecs
StartHour == 9
EndHour == 23
EdtOffsetHours == 4
EstOffsetHours == 5

AgeCap == MinuteSecs * MaxBound + PollSecs + 1
StartCap == MinuteSecs * MaxBound

Min(a, b) == IF a <= b THEN a ELSE b

-----------------------------------------------------------------------------
(* Values *)

NoId == IdMod
NoTime == [secs |-> DaySecs, us |-> 0]
NoSong == [artist |-> <<"none">>, title |-> <<"none">>, snippet |-> <<"none">>]
NoUrl == <<"none">>
NoMessage == <<>>
NoSms == [status |-> "none", error_code |-> 0]
NoExc == [step |-> "none", site |-> "none", class |-> "none"]

Catalog ==
    { [artist |-> <<"artist", n>>, title |-> <<"title", n>>,
       snippet |-> <<"earworm", n>>] : n \in 1..NumSongs }

Emoji == <<"notes">>
NL == <<"newline">>

Pipeline == <<"pick", "resolve", "shorten", "create", "fetch">>

(* The exception classes at hand, each with the class it derives from.    *)
(* "Exception" stands for itself and for any class derived from it that   *)
(* is not named here; KeyboardInterrupt, which no collaborator raises,    *)
(* derives from BaseException only.                                       *)
Base(class) ==
    CASE class = "Exception"                 -> "BaseException"
      [] class = "KeyboardInterrupt"         -> "BaseException"
      [] class = "TypeError"                 -> "Exception"
      [] class = "ValueError"                -> "Exception"
      [] class = "AttributeError"            -> "Exception"
      [] class = "OSError"                   -> "Exception"
      [] class = "requests.RequestException" -> "OSError"
      [] class = "requests.HTTPError"        -> "requests.RequestException"
      [] class = "sqlite3.Error"             -> "Exception"
      [] class = "sqlite3.DatabaseError"     -> "sqlite3.Error"
      [] class = "sqlite3.OperationalError"  -> "sqlite3.DatabaseError"
      [] class = "sqlite3.DataError"         -> "sqlite3.DatabaseError"
      [] class = "ShorteningErrorException"  -> "Exception"
      [] class = "TwilioException"           -> "Exception"
      [] class = "TwilioRestException"       -> "TwilioException"

(* The class and the classes it derives from, up to BaseException *)
RECURSIVE Mro(_)
Mro(class) ==
    IF class = "BaseException" THEN {class} ELSE {class} \cup Mro(Base(class))

(* Where get_earworm raises: connect (line 120), execute (line 124), or  *)
(* fetchone() and the unpacking of its result (line 125).                 *)
PickRaiseSites == {"connect", "execute", "fetchone"}

(* connect: the file cannot be opened (OperationalError) or the path is   *)
(* not one sqlite3 takes (ValueError); execute: the table is missing      *)
(* (OperationalError), the file is not a database (DatabaseError) or the  *)
(* data cannot be processed (DataError); fetchone: the row cannot be      *)
(* decoded as text (OperationalError) or there is no row and None cannot  *)
(* be unpacked (TypeError); at each of them, any other exception.         *)
PickRaiseClasses(site) ==
    CASE site = "connect"  -> {"sqlite3.OperationalError", "ValueError", "Exception"}
      [] site = "execute"  -> {"sqlite3.OperationalError", "sqlite3.DatabaseError",
                               "sqlite3.DataError", "Exception"}
      [] site = "fetchone" -> {"sqlite3.OperationalError", "TypeError", "Exception"}

(* Exceptions the collaborators raise, by the step raising them: the ones *)
(* known of each collaborator, and any other exception.                   *)
Raises(step) ==
    CASE step = "pick"    -> UNION { PickRaiseClasses(site) : site \in PickRaiseSites }
      [] step = "resolve" -> {"AttributeError", "requests.HTTPError", "Exception"}
      [] step = "shorten" -> {"ShorteningErrorException", "Exception"}
      [] step = "create"  -> {"TwilioRestException", "Exception"}
      [] step = "fetch"   -> {"TwilioRestException", "Exception"}

Statuses == {"delivered", "sent", "undelivered", "failed"}
ErrorCodes == {0, 30003}

-----------------------------------------------------------------------------
(* Availability gate: get_edt_time and is_available *)

HMS(h, m, s) == h * HourSecs + m * MinuteSecs + s

(* utc.localize(datetime.utcnow()).astimezone(US/Eastern): the Eastern wall  *)
(* clock is UTC minus 4 hours under daylight saving time and minus 5 hours   *)
(* otherwise; the date part is dropped by .time() in is_available.           *)
(* A reading of the clock is a second of the day and the microseconds in  *)
(* that second; the conversion shifts the seconds and keeps the rest.      *)
get_edt_time(utc, dst) ==
    [secs |-> (utc.secs + DaySecs
                 - (IF dst THEN EdtOffsetHours ELSE EstOffsetHours) * HourSecs)
              % DaySecs,
     us |-> utc.us]

(* datetime.time(): the (hour, minute, second, microsecond) fields *)
TimeOf(t) ==
    <<t.secs \div HourSecs, (t.secs % HourSecs) \div MinuteSecs,
      t.secs % MinuteSecs, t.us>>

(* t1 <= t2 on naive time objects: field by field, hour first *)
TimeLE(t1, t2) ==
    \/ t1[1] < t2[1]
    \/ t1[1] = t2[1] /\ t1[2] < t2[2]
    \/ t1[1] = t2[1] /\ t1[2] = t2[2] /\ t1[3] < t2[3]
    \/ t1[1] = t2[1] /\ t1[2] = t2[2] /\ t1[3] = t2[3] /\ t1[4] <= t2[4]

is_available_open(edt_time) ==
    /\ TimeLE(<<StartHour, 0, 0, 0>>, TimeOf(edt_time))
    /\ ~TimeLE(<<EndHour, 0, 0, 0>>, TimeOf(edt_time))

is_available(edt_time) ==
    /\ TimeLE(<<StartHour, 0, 0, 0>>, TimeOf(edt_time))
    /\ TimeLE(TimeOf(edt_time), <<EndHour, 0, 0, 0>>)

(* Readings of datetime.utcnow(): the seconds at the edges of the window   *)
(* under both offsets and well inside and outside it, each at its start,   *)
(* one microsecond in, half way and at its last microsecond.               *)
UtcSeconds ==
    { HMS(12, 59, 59), HMS(13, 0, 0), HMS(13, 59, 59), HMS(14, 0, 0),
      HMS(3, 0, 0), HMS(3, 0, 1), HMS(4, 0, 0), HMS(4, 0, 1),
      HMS(17, 30, 0), HMS(0, 0, 0) }

MicroSamples == {0, 1, 500000, 999999}

UtcSamples == { [secs |-> s, us |-> u] : s \in UtcSeconds, u \in MicroSamples }

-----------------------------------------------------------------------------
(* Collaborator results and the message composer *)

(* genius.search_song(artist, title).url: the reference of that song *)
Resolve(artist, title) == <<"genius.com", artist, title>>

(* shortener.short(long_url): the short link of that URL *)
Shorten(long_url) == <<"bit.ly", long_url>>

build_message_swapped(lyrics, url) ==
    <<Emoji, NL, url, NL, Emoji, NL, lyrics>>

build_message(lyrics, url) ==
    <<Emoji, NL, lyrics, NL, Emoji, NL, url>>

-----------------------------------------------------------------------------
(* The job queue: schedule.every(lo).to(hi).minutes.do(...), run_pending,  *)
(* clear                                                                   *)

(* random.randint(interval, latest), taken by Job._schedule_next_run *)
DrawFromZero(lo, hi) == 0..hi

DrawWide(lo, hi) == lo..(hi + 1)

Draw(lo, hi) == lo..hi

(* Job._schedule_next_run: period = drawn minutes, next_run = now + period *)
ScheduleNextRunStale(job, minutes, site) ==
    [job EXCEPT !.armed_by = site]

ScheduleNextRunRebind(job, minutes, site) ==
    [job EXCEPT !.period = minutes * MinuteSecs,
                !.next_run = minutes * MinuteSecs,
                !.age = 0,
                !.armed_by = site,
                !.genius = (@ + 1) % IdMod,
                !.twilio = (@ + 1) % IdMod]

ScheduleNextRun(job, minutes, site) ==
    [job EXCEPT !.period = minutes * MinuteSecs,
                !.next_run = minutes * MinuteSecs,
                !.age = 0,
                !.armed_by = site]

(* The job .do() registers: send_earworm bound to the handles of this call *)
NewJob(gen, minutes, site) ==
    ScheduleNextRun([id |-> gen, genius |-> gen, twilio |-> gen,
                     period |-> 0, next_run |-> 0, age |-> 0,
                     armed_by |-> site],
                    minutes, site)

(* Job.should_run: datetime.now() >= next_run *)
should_run_early(job) == job.next_run <= PollSecs

should_run(job) == job.next_run <= 0

(* d seconds pass *)
Elapse(js, d) ==
    [i \in 1..Len(js) |->
        [js[i] EXCEPT !.next_run = @ - d, !.age = Min(@ + d, AgeCap)]]

(* sorted(job for job in jobs if job.should_run): by next_run, stable *)
RECURSIVE SortIdx(_, _)
SortIdx(js, S) ==
    IF S = {} THEN <<>>
    ELSE LET first == CHOOSE i \in S :
                 \A j \in S : \/ js[i].next_run < js[j].next_run
                              \/ js[i].next_run = js[j].next_run /\ i <= j
         IN <<first>> \o SortIdx(js, S \ {first})

Runnable(js) == SortIdx(js, {i \in 1..Len(js) : should_run(js[i])})

(* schedule.clear() *)
clear_kept(js) == js

clear(js) == <<>>

(* schedule_job: get_clients builds new handles, .do() appends the job *)
schedule_job(js, gen, minutes, site) == Append(js, NewJob(gen, minutes, site))

(* restart_job: schedule.clear() then schedule_job *)
restart_job_clear_only(js, gen, minutes) == clear(js)

restart_job(js, gen, minutes) == schedule_job(clear(js), gen, minutes, "restart_job")

-----------------------------------------------------------------------------
(* Control flow of run_schedule and send_earworm *)

(* `except Exception` (line 36): the clause takes the exception when its   *)
(* class is Exception or derives from it                                  *)
CaughtTwilioOnly(class) == "TwilioRestException" \in Mro(class)

Caught(class) == "Exception" \in Mro(class)

(* `if is_available():` *)
RunsPipelineAlways(avail) == TRUE

RunsPipeline(avail) == avail

NextStep(step) ==
    CASE step = "pick"    -> "resolve"
      [] step = "resolve" -> "shorten"
      [] step = "shorten" -> "build"
      [] step = "create"  -> "fetch"
      [] step = "fetch"   -> "returned"

(* send_earworm has no handler: a raise in a step leaves the run at once *)
PropagateSwallowed(step) == NextStep(step)

PropagateRetry(step) == step

Propagate(step) == "raised"

(* send_sms after the fetch: the status is logged, whatever it is *)
StatusRaisesOnError(m) == m.error_code # 0 \/ m.status \in {"undelivered", "failed"}

StatusRaises(m) == FALSE

(* The connection when get_earworm is left by a raise: connect (line 120)  *)
(* made none, so the one opened last is the one of an earlier call; after  *)
(* it the new connection is open, connection.close() (line 126) being      *)
(* reached only when execute and fetchone succeeded.                       *)
ConnAfterRaise(conn, site) == IF site = "connect" THEN conn ELSE "open"

(* logging.exception(e): the error and its traceback go to the log *)
log_exception_dropped(e) == NoExc

log_exception(e) == e

(* Job.run calls job_func and waits for it to return *)
CallJobFuncDetached == "returned"

CallJobFunc == "gate"

-----------------------------------------------------------------------------
(* Initial state: run_schedule is entered with a valid ScheduleConfig *)

Init ==
    /\ lower_bound \in 1..MaxBound
    /\ upper_bound \in lower_bound..MaxBound
    /\ jobs = <<>>
    /\ clients_built = 0
    /\ pc = "start"
    /\ pending = <<>>
    /\ cur = 0
    /\ in_flight = 0
    /\ edt = NoTime
    /\ availability = FALSE
    /\ song = NoSong
    /\ original_url = NoUrl
    /\ short_url = NoUrl
    /\ earworm_message = NoMessage
    /\ sent = NoMessage
    /\ sms = NoSms
    /\ exc = NoExc
    /\ calls = <<>>
    /\ outcome = "none"
    /\ prev_outcome = "none"
    /\ failed_id = NoId
    /\ logged = NoExc
    /\ since_start = 0
    /\ connection = "none"

ClearRun ==
    /\ edt' = NoTime
    /\ availability' = FALSE
    /\ song' = NoSong
    /\ original_url' = NoUrl
    /\ short_url' = NoUrl
    /\ earworm_message' = NoMessage
    /\ sent' = NoMessage
    /\ sms' = NoSms

(* run_schedule, lines 28-31: the first registration *)
Startup ==
    /\ pc = "start"
    /\ \E m \in Draw(lower_bound, upper_bound) :
          jobs' = schedule_job(jobs, clients_built, m, "run_schedule")
    /\ clients_built' = (clients_built + 1) % IdMod
    /\ pc' = "poll"
    /\ UNCHANGED <<lower_bound, upper_bound, pending, cur, in_flight, run_vars,
                   exc, calls, outcome, prev_outcome, failed_id,
                   logged,
                   since_start,
                   connection>>

(* schedule.run_pending(): collect the due jobs *)
RunPending ==
    /\ pc = "poll"
    /\ pending' = Runnable(jobs)
    /\ pc' = "dispatch"
    /\ UNCHANGED <<lower_bound, upper_bound, jobs, clients_built, cur, in_flight,
                   run_vars, exc, calls, outcome, prev_outcome, failed_id,
                   logged,
                   since_start,
                   connection>>

(* run_pending: run the next due job (Job.run calls send_earworm) *)
JobStart ==
    /\ pc = "dispatch"
    /\ pending # <<>>
    /\ cur' = Head(pending)
    /\ pending' = Tail(pending)
    /\ in_flight' = in_flight + 1
    /\ calls' = <<>>
    /\ prev_outcome' = outcome
    /\ outcome' = "running"
    /\ pc' = CallJobFunc
    /\ logged' = NoExc
    /\ since_start' = 0
    /\ UNCHANGED <<lower_bound, upper_bound, jobs, clients_built, run_vars, exc,
                   failed_id,
                   connection>>

(* run_pending returns with nothing left to run: the loop goes to sleep(59) *)
PendingDone ==
    /\ pc = "dispatch"
    /\ pending = <<>>
    /\ pc' = "sleep"
    /\ UNCHANGED <<lower_bound, upper_bound, jobs, clients_built, pending, cur,
                   in_flight, run_vars, exc, calls, outcome, prev_outcome,
                   failed_id,
                   logged,
                   since_start,
                   connection>>

(* sleep(59) *)
Sleep ==
    /\ pc = "sleep"
    /\ jobs' = Elapse(jobs, PollSecs)
    /\ since_start' = Min(since_start + PollSecs, StartCap)
    /\ pc' = "poll"
    /\ UNCHANGED <<lower_bound, upper_bound, clients_built, pending, cur,
                   in_flight, run_vars, exc, calls, outcome, prev_outcome,
                   failed_id,
                   logged,
                   connection>>

(* send_earworm, lines 98 and 109-110: the availability gate *)
Gate ==
    /\ pc = "gate"
    /\ \E u \in UtcSamples, dst \in BOOLEAN :
          /\ edt' = get_edt_time(u, dst)
          /\ availability' = is_available(get_edt_time(u, dst))
    /\ IF RunsPipeline(availability')
          THEN /\ pc' = "pick"
               /\ UNCHANGED <<outcome, in_flight>>
          ELSE /\ pc' = "returned"
               /\ outcome' = "Skipped"
               /\ in_flight' = in_flight - 1
    /\ UNCHANGED <<lower_bound, upper_bound, jobs, clients_built, pending, cur,
                   song, original_url, short_url, earworm_message, sent, sms,
                   exc, calls, prev_outcome, failed_id,
                   logged,
                   since_start,
                   connection>>

(* A collaborator call of the run: it is recorded and takes d seconds *)
Called(step, d) ==
    /\ calls' = Append(calls, step)
    /\ jobs' = Elapse(jobs, d)
    /\ since_start' = Min(since_start + d, StartCap)

(* The call raises at `site`: the exception leaves send_earworm *)
RaiseAt(step, site, class) ==
    /\ exc' = [step |-> step, site |-> site, class |-> class]
    /\ pc' = Propagate(step)
    /\ outcome' = "Failed"
    /\ in_flight' = in_flight - 1

Raise(step, class) == RaiseAt(step, step, class)

(* get_earworm, line 101; the time of day is_available read is a local of *)
(* that call and is gone once the pipeline is entered                     *)
GetEarworm ==
    /\ pc = "pick"
    /\ edt' = NoTime
    /\ \E d \in 0..MaxCallSecs : Called("pick", d)
    /\ \/ /\ \E rec \in Catalog : song' = rec
          /\ pc' = "resolve"
          /\ UNCHANGED <<exc, outcome, in_flight>>
          /\ connection' = "closed"
       \/ /\ \E site \in PickRaiseSites :
                /\ connection' = ConnAfterRaise(connection, site)
                /\ \E class \in PickRaiseClasses(site) :
                      RaiseAt("pick", site, class)
          /\ UNCHANGED song
    /\ UNCHANGED <<lower_bound, upper_bound, clients_built, pending, cur,
                   availability, original_url, short_url, earworm_message, sent,
                   sms, prev_outcome, failed_id, logged>>

(* get_genius_link, lines 102-104 *)
GetGeniusLink ==
    /\ pc = "resolve"
    /\ \E d \in 0..MaxCallSecs : Called("resolve", d)
    /\ \/ /\ original_url' = Resolve(song.artist, song.title)
          /\ pc' = "shorten"
          /\ UNCHANGED <<exc, outcome, in_flight>>
       \/ /\ \E class \in Raises("resolve") : Raise("resolve", class)
          /\ UNCHANGED original_url
    /\ UNCHANGED <<lower_bound, upper_bound, clients_built, pending, cur, edt,
                   availability, song, short_url, earworm_message, sent, sms,
                   prev_outcome, failed_id,
                   logged,
                   connection>>

(* shorten_link, lines 105-106 *)
ShortenLink ==
    /\ pc = "shorten"
    /\ \E d \in 0..MaxCallSecs : Called("shorten", d)
    /\ \/ /\ short_url' = Shorten(original_url)
          /\ pc' = "build"
          /\ UNCHANGED <<exc, outcome, in_flight>>
       \/ /\ \E class \in Raises("shorten") : Raise("shorten", class)
          /\ UNCHANGED short_url
    /\ UNCHANGED <<lower_bound, upper_bound, clients_built, pending, cur, edt,
                   availability, song, original_url, earworm_message, sent, sms,
                   prev_outcome, failed_id,
                   logged,
                   connection>>

(* build_message, line 107 *)
BuildMessage ==
    /\ pc = "build"
    /\ earworm_message' = build_message(song.snippet, short_url)
    /\ pc' = "create"
    /\ UNCHANGED <<lower_bound, upper_bound, jobs, clients_built, pending, cur,
                   in_flight, edt, availability, song, original_url, short_url,
                   sent, sms, exc, calls, outcome, prev_outcome, failed_id,
                   logged,
                   since_start,
                   connection>>

(* send_sms, lines 190-191: client.messages.create *)
SendSmsCreate ==
    /\ pc = "create"
    /\ \E d \in 0..MaxCallSecs : Called("create", d)
    /\ \/ /\ sent' = earworm_message
          /\ pc' = "fetch"
          /\ UNCHANGED <<exc, outcome, in_flight>>
       \/ /\ \E class \in Raises("create") : Raise("create", class)
          /\ UNCHANGED sent
    /\ UNCHANGED <<lower_bound, upper_bound, clients_built, pending, cur, edt,
                   availability, song, original_url, short_url, earworm_message,
                   sms, prev_outcome, failed_id,
                   logged,
                   connection>>

(* send_sms, lines 194-200: sleep(2), fetch the message, log its status *)
SendSmsFetch ==
    /\ pc = "fetch"
    /\ \E d \in 0..MaxCallSecs : Called("fetch", SettleSecs + d)
    /\ \/ \E st \in Statuses, code \in ErrorCodes :
            LET m == [status |-> st, error_code |-> code]
            IN /\ sms' = m
               /\ IF StatusRaises(m)
                     THEN Raise("fetch", "TwilioRestException")
                     ELSE /\ pc' = "returned"
                          /\ outcome' = "Sent"
                          /\ in_flight' = in_flight - 1
                          /\ UNCHANGED exc
       \/ /\ \E class \in Raises("fetch") : Raise("fetch", class)
          /\ UNCHANGED sms
    /\ UNCHANGED <<lower_bound, upper_bound, clients_built, pending, cur, edt,
                   availability, song, original_url, short_url, earworm_message,
                   sent, prev_outcome, failed_id,
                   logged,
                   connection>>

(* Job.run after job_func returned: last_run, _schedule_next_run *)
JobRearm ==
    /\ pc = "returned"
    /\ \E m \in Draw(lower_bound, upper_bound) :
          jobs' = [jobs EXCEPT ![cur] = ScheduleNextRun(@, m, "rearm")]
    /\ cur' = 0
    /\ ClearRun
    /\ pc' = "dispatch"
    /\ UNCHANGED <<lower_bound, upper_bound, clients_built, pending, in_flight,
                   exc, calls, outcome, prev_outcome, failed_id,
                   logged,
                   since_start,
                   connection>>

(* run_schedule, lines 36-40: the exception reaches the try statement *)
ExceptHandler ==
    /\ pc = "raised"
    /\ IF Caught(exc.class)
          THEN /\ \E m \in Draw(lower_bound, upper_bound) :
                     jobs' = restart_job(jobs, clients_built, m)
               /\ clients_built' = (clients_built + 1) % IdMod
               /\ failed_id' = jobs[cur].id
               /\ pc' = "log"
          ELSE /\ pc' = "crashed"
               /\ UNCHANGED <<jobs, clients_built, failed_id>>
    /\ pending' = <<>>
    /\ cur' = 0
    /\ ClearRun
    /\ UNCHANGED <<lower_bound, upper_bound, in_flight, exc, calls, outcome,
                   prev_outcome,
                   logged,
                   since_start,
                   connection>>

(* run_schedule, line 41: logging.exception(e) *)
LogException ==
    /\ pc = "log"
    /\ logged' = log_exception(exc)
    /\ exc' = NoExc
    /\ pc' = "sleep"
    /\ UNCHANGED <<lower_bound, upper_bound, jobs, clients_built, pending, cur,
                   in_flight, run_vars, calls, outcome, prev_outcome, failed_id,
                   since_start,
                   connection>>

(* The connection get_earworm left open is referred to by the traceback   *)
(* of the exception while run_schedule handles it.                         *)
ConnectionHeld ==
    pc \in {"raised", "log"} /\ exc.site \in {"execute", "fetchone"}

(* The interpreter finalizes a connection object nothing refers to any     *)
(* more, which closes it: when it does so, if ever, depends on the         *)
(* interpreter; it can happen at any point of the loop or of a later run.  *)
Finalize ==
    /\ connection = "open"
    /\ ~ConnectionHeld
    /\ connection' = "closed"
    /\ UNCHANGED <<lower_bound, upper_bound, jobs, clients_built, pc, pending,
                   cur, in_flight, run_vars, exc, calls, outcome, prev_outcome,
                   failed_id, logged, since_start>>

Next ==
    \/ Startup
    \/ RunPending
    \/ JobStart
    \/ PendingDone
    \/ Sleep
    \/ Gate
    \/ GetEarworm
    \/ GetGeniusLink
    \/ ShortenLink
    \/ BuildMessage
    \/ SendSmsCreate
    \/ SendSmsFetch
    \/ JobRearm
    \/ ExceptHandler
    \/ LogException
    \/ Finalize

Spec == Init /\ [][Next]_vars

(* The single thread keeps running: sleep returns and every collaborator *)
(* call returns or raises.                                               *)
FairSpec == Spec /\ WF_vars(Next)

-----------------------------------------------------------------------------
(* Properties *)

InRun == pc \in {"gate", "pick", "resolve", "shorten", "build", "create", "fetch"}

StepsUpTo(step) ==
    SubSeq(Pipeline, 1, CHOOSE i \in 1..Len(Pipeline) : Pipeline[i] = step)

ErrorStatus(m) == m.error_code # 0 \/ m.status \in {"undelivered", "failed"}

(* Some registration is armed anew by this step *)
Drawn ==
    \E i \in 1..Len(jobs') :
        /\ jobs'[i].age = 0
        /\ \/ i > Len(jobs)
           \/ jobs[i].age # 0
           \/ jobs[i].id # jobs'[i].id

(* C1: a failure raised inside a run, of any class deriving from           *)
(* Exception and at any step, never propagates out of run_schedule: the    *)
(* process never terminates on it, and the step that follows the raise is  *)
(* the handler of the control loop, which goes on to log and then to the   *)
(* next sleep and poll.                                                    *)
C1_FailureIsCaught ==
    /\ [](pc # "crashed")
    /\ [][(pc = "raised" /\ pc' # pc) => pc' = "log"]_vars
    /\ [][(pc = "log" /\ pc' # pc) => pc' = "sleep"]_vars

C1_Witness ==
    /\ pc = "poll"
    /\ outcome = "Failed"
    /\ prev_outcome = "Failed"
    /\ logged.class = "ValueError"

(* C2: after a failed run the queue holds exactly one registration, built  *)
(* by restart_job with a fresh draw that is not yet due at the next poll,  *)
(* and the run that follows a failed run is a run of that registration,    *)
(* not of the failed one, started once the drawn interval has elapsed.     *)
C2_FailureRebuildsSchedule ==
    /\ pc = "log" =>
          /\ Len(jobs) = 1
          /\ jobs[1].armed_by = "restart_job"
          /\ jobs[1].id # failed_id
          /\ jobs[1].age = 0
          /\ jobs[1].next_run = jobs[1].period
          /\ jobs[1].next_run > PollSecs
    /\ (cur # 0 /\ prev_outcome = "Failed") =>
          /\ jobs[cur].armed_by = "restart_job"
          /\ jobs[cur].id # failed_id
          /\ jobs[cur].age >= jobs[cur].period

C2_Witness ==
    /\ pc = "gate"
    /\ cur # 0
    /\ prev_outcome = "Failed"

(* C3: a run entered while is_available() is false calls no collaborator   *)
(* and returns normally, as Skipped.                                       *)
C3_ClosedGateSkips ==
    (edt # NoTime /\ ~availability) =>
        /\ calls = <<>>
        /\ sent = NoMessage
        /\ exc = NoExc
        /\ outcome = "Skipped"
        /\ pc = "returned"

C3_Witness ==
    /\ pc = "returned"
    /\ edt # NoTime
    /\ ~availability
    /\ outcome = "Skipped"

(* C4: when a step of the pipeline raises, the run is Failed and the calls *)
(* of the run stop at the raising step: no later step is executed.         *)
C4_FailedStepStopsPipeline ==
    exc # NoExc =>
        /\ outcome = "Failed"
        /\ pc \in {"raised", "log"}
        /\ calls = StepsUpTo(exc.step)
        /\ exc.step \in {"pick", "resolve", "shorten", "create"} => sent = NoMessage
        /\ exc.step \in {"pick", "resolve"} => short_url = NoUrl
        /\ exc.step = "pick" => original_url = NoUrl

C4_Witness ==
    /\ pc = "raised"
    /\ exc.step = "resolve"
    /\ calls = <<"pick", "resolve">>

(* C5: every interval drawn, at startup, on re-arming and on the rebuild   *)
(* after a failure, lies between lower_bound and upper_bound minutes.      *)
C5_IntervalWithinBounds ==
    \A i \in 1..Len(jobs) :
        /\ jobs[i].armed_by \in {"run_schedule", "rearm", "restart_job"}
        /\ jobs[i].period % MinuteSecs = 0
        /\ lower_bound * MinuteSecs <= jobs[i].period
        /\ jobs[i].period <= upper_bound * MinuteSecs

C5_Witness ==
    /\ Len(jobs) = 1
    /\ jobs[1].armed_by = "rearm"
    /\ failed_id # NoId
    /\ lower_bound < upper_bound
    /\ jobs[1].period = upper_bound * MinuteSecs

(* C6: at most one run is in flight; a run starts only when none is        *)
(* outstanding, and an interval is drawn only when no run is outstanding.  *)
C6_SingleRunInFlight ==
    /\ [](in_flight \in {0, 1})
    /\ [](in_flight = 1 <=> InRun)
    /\ [][in_flight' > in_flight => in_flight = 0]_vars
    /\ [][Drawn => (in_flight = 0 /\ in_flight' = 0)]_vars

C6_Witness ==
    /\ pc = "fetch"
    /\ in_flight = 1
    /\ prev_outcome = "Sent"

(* C7: an accepted submission whose fetched status is an error status or   *)
(* carries an error code leaves the run Sent, without exception, and the   *)
(* scheduler re-arms the same registration instead of resetting.           *)
C7_ErrorStatusIsNotFailure ==
    /\ []((sms # NoSms /\ ErrorStatus(sms)) =>
             (outcome = "Sent" /\ pc = "returned" /\ exc = NoExc))
    /\ [][(sms # NoSms /\ ErrorStatus(sms) /\ pc' # pc) =>
             /\ pc' = "dispatch"
             /\ Len(jobs') = Len(jobs)
             /\ jobs'[cur].id = jobs[cur].id
             /\ jobs'[cur].armed_by = "rearm"
             /\ failed_id' = failed_id
             /\ clients_built' = clients_built]_vars

C7_Witness ==
    /\ pc = "returned"
    /\ sms.status = "failed"
    /\ sms.error_code # 0
    /\ outcome = "Sent"

(* C8: the body handed to the sender is marker, newline, snippet, newline, *)
(* marker, newline, short URL, with the snippet of the record picked in    *)
(* this run and the short link of the reference resolved for that record.  *)
C8_BodyFromThisRun ==
    sent # NoMessage =>
        /\ song \in Catalog
        /\ calls[1] = "pick"
        /\ sent = <<Emoji, NL, song.snippet, NL, Emoji, NL,
                    Shorten(Resolve(song.artist, song.title))>>

C8_Witness ==
    /\ pc = "fetch"
    /\ sent # NoMessage
    /\ prev_outcome = "Sent"

(* C9: is_available is true exactly when the Eastern time of day t, taken  *)
(* with its microseconds, has 09:00:00 <= t <= 23:00:00: true at both      *)
(* ends, false one second outside.                                         *)
C9_WindowInclusive ==
    edt # NoTime =>
        /\ availability <=>
              /\ HMS(9, 0, 0) <= edt.secs
              /\ \/ edt.secs < HMS(23, 0, 0)
                 \/ edt.secs = HMS(23, 0, 0) /\ edt.us = 0
        /\ (edt.us = 0 /\ edt.secs \in {HMS(9, 0, 0), HMS(23, 0, 0)}) => availability
        /\ edt.secs \in {HMS(8, 59, 59), HMS(23, 0, 1)} => ~availability

C9_Witness ==
    /\ edt = [secs |-> HMS(23, 0, 0), us |-> 0]
    /\ availability
    /\ pc = "pick"

(* C10: a run that ends Skipped or Sent never reaches the handler of the   *)
(* control loop; the registration is kept and armed with a new draw from   *)
(* the configured bounds.                                                  *)
C10_NormalReturnRearms ==
    /\ [](outcome \in {"Skipped", "Sent"} => (pc \notin {"raised", "log"} /\ exc = NoExc))
    /\ [][(pc = "returned" /\ pc' # pc /\ outcome \in {"Skipped", "Sent"}) =>
             /\ pc' = "dispatch"
             /\ Len(jobs') = Len(jobs)
             /\ \A i \in 1..Len(jobs) :
                   /\ jobs'[i].id = jobs[i].id
                   /\ jobs'[i].genius = jobs[i].genius
                   /\ jobs'[i].twilio = jobs[i].twilio
             /\ jobs'[cur].armed_by = "rearm"
             /\ jobs'[cur].age = 0
             /\ jobs'[cur].next_run = jobs'[cur].period
             /\ jobs'[cur].period \in
                   {m * MinuteSecs : m \in lower_bound..upper_bound}
             /\ failed_id' = failed_id
             /\ clients_built' = clients_built]_vars

C10_Witness ==
    /\ pc = "dispatch"
    /\ outcome = "Skipped"
    /\ Len(jobs) = 1
    /\ jobs[1].armed_by = "rearm"
    /\ jobs[1].age = 0

(* Generation of the handles the latest call of get_clients built *)
LatestClients == (clients_built + IdMod - 1) % IdMod

(* C11 as stated: get_clients is called once, at startup, and every        *)
(* registration is bound to the handles of that call.                      *)
C11_ContextBuiltOnce ==
    pc # "start" =>
        /\ clients_built = 1
        /\ \A i \in 1..Len(jobs) : jobs[i].genius = 0 /\ jobs[i].twilio = 0

(* C11 amended: the handles are built at startup and built again at each   *)
(* schedule reset, and at no other step; a re-arm keeps the handles of the *)
(* registration, and every run uses the handles built last.                *)
C11_ContextBuiltPerRegistration ==
    /\ [][clients_built' # clients_built => pc \in {"start", "raised"}]_vars
    /\ [][(pc = "raised" /\ pc' # pc) => clients_built' # clients_built]_vars
    /\ [][pc = "returned" =>
             (jobs'[cur].genius = jobs[cur].genius
                /\ jobs'[cur].twilio = jobs[cur].twilio)]_vars
    /\ [](\A i \in 1..Len(jobs) :
             jobs[i].genius = LatestClients /\ jobs[i].twilio = LatestClients)

C11_Witness ==
    /\ pc = "gate"
    /\ cur # 0
    /\ jobs[cur].genius = 1
    /\ jobs[cur].armed_by = "rearm"

(* C12: after every run, whether it returned or raised, another run is     *)
(* eventually started.                                                     *)
C12_AnotherRunFollows ==
    (pc \in {"returned", "raised"}) ~> (pc = "gate")

C12_Witness ==
    /\ pc = "gate"
    /\ prev_outcome = "Skipped"
    /\ failed_id # NoId

(* C14: the calls of a run are an initial part of pick, resolve, shorten,  *)
(* send (submission, then status fetch), each made at most once, and a     *)
(* step is called only with the result of the step before it.              *)
C14_StepsOnceInOrder ==
    /\ \E k \in 0..Len(Pipeline) : calls = SubSeq(Pipeline, 1, k)
    /\ (InRun \/ pc \in {"returned", "raised"}) =>
          /\ Len(calls) >= 2 => song \in Catalog
          /\ Len(calls) >= 3 => original_url = Resolve(song.artist, song.title)
          /\ Len(calls) >= 4 =>
                (short_url = Shorten(original_url) /\ earworm_message # NoMessage)
          /\ Len(calls) >= 5 => sent = earworm_message

C14_Witness ==
    /\ pc = "returned"
    /\ calls = Pipeline
    /\ outcome = "Sent"
    /\ sms.status = "delivered"

(* C15: a run starts when its registration is due, and less than one       *)
(* sleep of the control loop after it became due.                          *)
C15_StartWithinOnePoll ==
    pc = "gate" =>
        /\ jobs[cur].next_run <= 0
        /\ jobs[cur].next_run > 0 - PollSecs
        /\ jobs[cur].age >= jobs[cur].period

C15_Witness ==
    /\ pc = "gate"
    /\ jobs[cur].next_run = 1 - PollSecs

(* C16 as stated: once client.messages.create has returned, the run is     *)
(* not Failed and no exception leaves it.                                  *)
C16_AcceptedNeverFails ==
    sent # NoMessage => (outcome # "Failed" /\ pc # "raised" /\ exc = NoExc)

(* C17: from the first registration on, and so at every poll, the queue    *)
(* holds exactly one registration.                                         *)
C17_OneRegistration ==
    pc # "start" => Len(jobs) = 1

C17_Witness ==
    /\ pc = "poll"
    /\ Len(jobs) = 1
    /\ failed_id # NoId
    /\ jobs[1].armed_by = "rearm"
    /\ jobs[1].next_run <= 0

(* C13: the exception of a failed run, whatever its class and the step    *)
(* raising it, is the one the handler takes and writes to the log before  *)
(* the control loop sleeps and polls again: a run that ended as Failed    *)
(* either has its exception in the handler or has it in the log.          *)
C13_FailureIsLogged ==
    /\ []((outcome = "Failed" /\ pc \in {"raised", "log"}) =>
             (exc # NoExc /\ exc.class \in Raises(exc.step)))
    /\ []((outcome = "Failed" /\ pc \notin {"raised", "log"}) =>
             (logged # NoExc /\ logged.class \in Raises(logged.step)))
    /\ [][(pc = "raised" /\ pc' # pc) => (exc' = exc /\ pc' = "log")]_vars
    /\ [][(pc = "log" /\ pc' # pc) => (logged' = exc /\ pc' = "sleep")]_vars
    /\ [][pc = "log" => pc' \in {"log", "sleep"}]_vars

C13_Witness ==
    /\ pc = "poll"
    /\ outcome = "Failed"
    /\ logged.class = "TypeError"
    /\ logged.step = "pick"

(* C18: when a run starts, at least lower_bound minutes have passed since  *)
(* the start of the run before it, whatever the outcome of that run.       *)
C18_RunsLowerBoundApart ==
    [][(in_flight' > in_flight /\ outcome # "none") =>
          since_start >= lower_bound * MinuteSecs]_vars

C18_Witness ==
    /\ pc = "dispatch"
    /\ pending # <<>>
    /\ outcome = "Failed"
    /\ lower_bound = upper_bound
    /\ since_start >= lower_bound * MinuteSecs

(* C19 as stated: no connection opened by get_earworm is open once the run *)
(* has ended, on the raising paths as on the normal one.                   *)
C19_ConnectionClosed ==
    pc # "pick" => connection # "open"

====
